---------------------------- MODULE Spec2Model ----------------------------
(***************************************************************************)
(* A model of two leaf modules of the AMP HTML repository:                 *)
(*                                                                         *)
(*   extensions/amp-facebook/0.1/amp-facebook.js                           *)
(*       the AmpFacebook element: layoutCallback, unlayoutCallback and the *)
(*       window 'message' handler handleFacebookMessages_;                 *)
(*   extensions/amp-base-carousel/0.1/dimensions.js                        *)
(*       the carousel's axis-aware geometry and scrolling helpers.         *)
(*                                                                         *)
(* Spec         drives the AmpFacebook element (lifecycle and messages).   *)
(* CarouselSpec drives the pure geometry helpers over bounded layouts.     *)
(* ScrollSpec   drives the scrolling helpers.                              *)
(* StyleSpec    drives every mutating helper (scroll and style writes).    *)
(***************************************************************************)
EXTENDS Integers, Sequences, FiniteSets, TLC

(***************************************************************************)
(* Bounds of the model.                                                    *)
(***************************************************************************)
\* Iframes one element creates over its life (successful layoutCallbacks).
MaxIframes == 2
\* Cap of toggleLoadingCounter_ (it counts in test mode only).
MaxCounter == 3
\* Longest children array of a carousel.
MaxChildren == 4

VARIABLES
    \* ---- AmpFacebook -------------------------------------------------
    embedAs,                \* element.getAttribute('data-embed-as')
    testMode,               \* getMode().test
    iframe_,                \* this.iframe_: NULL or an iframe
    unlistenMessage_,       \* this.unlistenMessage_: NULL or a listener
    toggleLoadingCounter_,  \* this.toggleLoadingCounter_
    created,                \* iframes made so far by getIframe: 1..created
    childIframes,           \* iframes that are children of this.element
    messageListeners,       \* 'message' listeners registered on this.win
    sizeListeners,          \* iframes listenFor(.., 'embed-size', ..) watches
    loading,                \* the loading indicator (toggleLoading)
    height,                 \* the height last given to forceChangeHeight
    laidOut,                \* the framework's view: between layout and unlayout
    last,                   \* the operation that ran last, with its input
    calls,                  \* the BaseElement calls that operation made
    \* ---- amp-base-carousel dimensions --------------------------------
    dom,                    \* the elements: box, scroll position and style
    children,               \* the children array: index 0..length-1 -> element
    op                      \* the helper that ran last, its input and result

fbVars == <<embedAs, testMode, iframe_, unlistenMessage_, toggleLoadingCounter_,
            created, childIframes, messageListeners, sizeListeners, loading,
            height, laidOut, last, calls>>

carVars == <<dom, children, op>>

vars == <<fbVars, carVars>>

(***************************************************************************)
(* JavaScript values.  Every value is a record whose single field names    *)
(* its kind, so that values of different kinds are unequal.                *)
(*   Json(v) is the string JSON.stringify(v), AmpMsg(v) the string         *)
(*   'amp-' + JSON.stringify(v), Str(s) any other text.                    *)
(***************************************************************************)
Undefined == [undefined |-> TRUE]
Null == [null |-> TRUE]
Str(s) == [str |-> s]
Num(n) == [num |-> n]
Obj(props) == [obj |-> props]
Json(v) == [json |-> v]
AmpMsg(v) == [amp |-> v]
TypeError == [typeError |-> TRUE]

NULL == 0

IsKind(v, k) == k \in DOMAIN v

\* typeof v == 'string'
IsString(v) == IsKind(v, "str") \/ IsKind(v, "json") \/ IsKind(v, "amp")

\* ToBoolean(v): the test of `!v` and of `a || b`.
Truthy(v) ==
    CASE IsKind(v, "undefined") -> FALSE
      [] IsKind(v, "null") -> FALSE
      [] IsKind(v, "str") -> v.str # ""
      [] IsKind(v, "num") -> v.num # 0
      [] OTHER -> TRUE

\* v[key]: a TypeError on undefined and null, undefined on a primitive.
GetProp(v, key) ==
    CASE IsKind(v, "undefined") \/ IsKind(v, "null") -> TypeError
      [] IsKind(v, "obj") -> IF key \in DOMAIN v.obj THEN v.obj[key] ELSE Undefined
      [] OTHER -> Undefined

\* v == 'text' for the values above: only the string 'text' itself is equal.
LooseEqualsString(v, text) == IsKind(v, "str") /\ v.str = text

\* src/event-helper getData(event): the event's data.
getData(event) == event.data

\* src/core/types isObject(v): toString.call(v) === '[object Object]'.
isObject(v) == IsKind(v, "obj")

\* src/core/types/object/json tryParseJson(json): JSON.parse, undefined when
\* it throws.  JSON.parse converts its argument to a string first.
tryParseJson(v) ==
    CASE IsKind(v, "json") -> v.json
      [] IsKind(v, "num") -> v
      [] OTHER -> Undefined


(***************************************************************************)
(* AmpFacebook: extensions/amp-facebook/0.1/amp-facebook.js                *)
(***************************************************************************)
\* The values of data-embed-as the model tries: the attribute absent
\* (getAttribute gives null), empty, the three supported values, and two
\* unsupported ones.
EmbedAsValues ==
    {Null, Str(""), Str("post"), Str("video"), Str("comment"), Str("photo"),
     Str("Post")}

\* The window of an iframe that is a child of the document; window 0 is any
\* other window (the parent, another embed).
contentWindow(iframe) == iframe
Windows == 0..MaxIframes

Heights == {100, 250}

\* The objects the embed and other frames post.
Payloads ==
    {Obj([action |-> Str("ready")]),
     Obj([action |-> Str("resize")]),
     Obj([type |-> Str("render-start")]),
     Obj([type |-> Str("embed-size"), action |-> Str("ready"), height |-> Num(100)])}
    \cup {Obj([type |-> Str("embed-size"), height |-> Num(h)]) : h \in Heights}

\* event.data: nothing, empty and non-JSON text, numbers, and every payload
\* as an object, as JSON text and as an 'amp-' prefixed 3p message.
MessageData ==
    {Undefined, Null, Str(""), Str("hello"), Num(0), Num(5),
     Json(Num(0)), Json(Num(5))}
    \cup Payloads
    \cup {Json(p) : p \in Payloads}
    \cup {AmpMsg(p) : p \in Payloads}

Events == [source : Windows, data : MessageData]

Call(fn, arg) == [fn |-> fn, arg |-> arg]
Bool(b) == [bool |-> b]

NoInput == [source |-> 0, data |-> Undefined]
Op(name, threw, event) ==
    [op |-> name, threw |-> threw, source |-> event.source, data |-> event.data]

\* A variant of the condition that leaves 'comment' out of the list.
EmbedAsSupported_NoComment(v) ==
    ~Truthy(v) \/ v \in {Str("post"), Str("video")}

\* userAssert's condition in layoutCallback.
EmbedAsSupported(v) ==
    ~Truthy(v) \/ v \in {Str("post"), Str("video"), Str("comment")}

\* A variant of the callback that reads the wrong property.
embedSizeCallback_Width(data) == GetProp(data, "width")

\* The 'embed-size' callback given to listenFor: the value it hands to
\* this.forceChangeHeight.
embedSizeCallback(data) == GetProp(data, "height")

\* src/iframe-helper parseIfNeeded(data): text is parsed when it starts with
\* '{' or is an 'amp-' message, and is dropped otherwise.
parseIfNeeded(data) ==
    IF IsString(data)
    THEN IF IsKind(data, "json") /\ isObject(data.json) THEN data.json
         ELSE IF IsKind(data, "amp") THEN data.amp
         ELSE Null
    ELSE data

\* src/iframe-helper listenFor(iframe, 'embed-size', cb, true): the callback
\* runs for a message of that type whose source is the window of the iframe
\* (an iframe out of the document has no window, and its listener is dropped).
\* The sentinel the 3p protocol adds to every message is taken as part of the
\* message's type.
listenForMatches(iframe, event) ==
    /\ iframe \in sizeListeners
    /\ iframe \in childIframes
    /\ event.source = contentWindow(iframe)
    /\ LET data == parseIfNeeded(getData(event))
       IN /\ Truthy(data)
          /\ isObject(data)
          /\ LooseEqualsString(GetProp(data, "type"), "embed-size")

\* A variant of the handler without the test of event.source.
handleFacebookMessages_NoSourceCheck(event) ==
    LET eventData == getData(event) IN
    IF ~Truthy(eventData)
    THEN "return"
    ELSE LET parsedEventData ==
                 IF isObject(eventData) THEN eventData
                 ELSE tryParseJson(eventData)
         IN IF ~Truthy(parsedEventData)
            THEN "return"
            ELSE IF LooseEqualsString(GetProp(eventData, "action"), "ready")
                 THEN "toggle"
                 ELSE "return"

\* A variant of the handler without the test of the action.
handleFacebookMessages_AnyAction(event) ==
    IF iframe_ # NULL /\ event.source # contentWindow(iframe_)
    THEN "return"
    ELSE LET eventData == getData(event) IN
         IF ~Truthy(eventData)
         THEN "return"
         ELSE LET parsedEventData ==
                      IF isObject(eventData) THEN eventData
                      ELSE tryParseJson(eventData)
              IN IF ~Truthy(parsedEventData) THEN "return" ELSE "toggle"

\* handleFacebookMessages_(event): what one run of the handler does, "toggle"
\* for toggleLoading(false), "return" for nothing, "throw" for an exception.
handleFacebookMessages_(event) ==
    IF iframe_ # NULL /\ event.source # contentWindow(iframe_)
    THEN "return"
    ELSE LET eventData == getData(event) IN
         IF ~Truthy(eventData)
         THEN "return"
         ELSE LET parsedEventData ==
                      IF isObject(eventData) THEN eventData
                      ELSE tryParseJson(eventData)
              IN IF ~Truthy(parsedEventData)
                 THEN "return"
                 ELSE LET action == GetProp(eventData, "action") IN
                      IF action = TypeError THEN "throw"
                      ELSE IF LooseEqualsString(action, "ready") THEN "toggle"
                      ELSE "return"

\* The framework calls layoutCallback only on an element that is not laid
\* out, and unlayoutCallback on any built element (also after a layout that
\* failed).
layoutCallback ==
    /\ ~laidOut
    /\ IF ~EmbedAsSupported(embedAs)
       THEN \* userAssert throws before anything is made.
            /\ last' = Op("layoutCallback", TRUE, NoInput)
            /\ calls' = <<>>
            /\ UNCHANGED <<embedAs, testMode, iframe_, unlistenMessage_,
                           toggleLoadingCounter_, created, childIframes,
                           messageListeners, sizeListeners, loading, height,
                           laidOut, carVars>>
       ELSE /\ created < MaxIframes
            /\ testMode => toggleLoadingCounter_ < MaxCounter
            /\ LET iframe == created + 1 IN
               /\ created' = iframe
               /\ sizeListeners' = sizeListeners \cup {iframe}
               /\ messageListeners' = messageListeners \cup {iframe}
               /\ unlistenMessage_' = iframe
               /\ loading' = TRUE
               /\ calls' = <<Call("toggleLoading", Bool(TRUE))>>
               /\ toggleLoadingCounter_' =
                      IF testMode THEN toggleLoadingCounter_ + 1
                      ELSE toggleLoadingCounter_
               /\ childIframes' = childIframes \cup {iframe}
               /\ iframe_' = iframe
            /\ laidOut' = TRUE
            /\ last' = Op("layoutCallback", FALSE, NoInput)
            /\ UNCHANGED <<embedAs, testMode, height, carVars>>

\* A variant of unlayoutCallback that never calls unlistenMessage_.
unlayoutCallback_KeepsListener ==
    /\ childIframes' = IF iframe_ # NULL THEN childIframes \ {iframe_}
                       ELSE childIframes
    /\ iframe_' = NULL
    /\ laidOut' = FALSE
    /\ last' = Op("unlayoutCallback", FALSE, NoInput)
    /\ calls' = <<>>
    /\ UNCHANGED <<embedAs, testMode, unlistenMessage_, toggleLoadingCounter_,
                   created, sizeListeners, loading, height, messageListeners,
                   carVars>>

unlayoutCallback ==
    /\ childIframes' = IF iframe_ # NULL THEN childIframes \ {iframe_}
                       ELSE childIframes
    /\ iframe_' = NULL
    /\ messageListeners' = IF unlistenMessage_ # NULL
                           THEN messageListeners \ {unlistenMessage_}
                           ELSE messageListeners
    /\ laidOut' = FALSE
    /\ last' = Op("unlayoutCallback", FALSE, NoInput)
    /\ calls' = <<>>
    /\ UNCHANGED <<embedAs, testMode, unlistenMessage_, toggleLoadingCounter_,
                   created, sizeListeners, loading, height, carVars>>

\* A 'message' event on this.win: every registered listener runs.
ReceiveMessage(event) ==
    LET runs == Cardinality(messageListeners)
        outcome == handleFacebookMessages_(event)
        toggles == runs > 0 /\ outcome = "toggle"
        sized == {i \in 1..created : listenForMatches(i, event)}
        sizeCalls == IF sized = {} THEN <<>>
                     ELSE <<Call("forceChangeHeight",
                                 embedSizeCallback(parseIfNeeded(getData(event))))>>
        toggleCalls == IF toggles
                       THEN [i \in 1..runs |-> Call("toggleLoading", Bool(FALSE))]
                       ELSE <<>>
    IN /\ event.source \in 0..created
       /\ (testMode /\ toggles) => toggleLoadingCounter_ + runs <= MaxCounter
       /\ loading' = IF toggles THEN FALSE ELSE loading
       /\ toggleLoadingCounter_' =
              IF testMode /\ toggles THEN toggleLoadingCounter_ + runs
              ELSE toggleLoadingCounter_
       /\ height' = IF sized = {} THEN height ELSE sizeCalls[1].arg
       /\ calls' = sizeCalls \o toggleCalls
       /\ last' = Op("message", runs > 0 /\ outcome = "throw", event)
       /\ UNCHANGED <<embedAs, testMode, iframe_, unlistenMessage_, created,
                      childIframes, messageListeners, sizeListeners, laidOut,
                      carVars>>

(***************************************************************************)
(* amp-base-carousel: extensions/amp-base-carousel/0.1/dimensions.js       *)
(*                                                                         *)
(* Lengths are even numbers of half pixels, so that the two real-number    *)
(* expressions of the file, (start + end) / 2 and offset * length with an  *)
(* offset counted in halves, are exact in integer arithmetic.              *)
(***************************************************************************)
Axis == [X |-> 0, Y |-> 1]
Alignment == [START |-> "start", CENTER |-> "center"]

Axes == {Axis.X, Axis.Y}
Alignments == {Alignment.START, Alignment.CENTER}

\* The element that is the scrolling container; elements 1..n are its slides.
ContainerId == 0

Max(a, b) == IF a >= b THEN a ELSE b
Min(a, b) == IF a <= b THEN a ELSE b

\* The texts the helpers write to style properties.
Px(length) == [px |-> length]
Translate(deltaX, deltaY) == [translate |-> <<deltaX, deltaY>>]

StyleProps == {"width", "height", "transform", "--content-transform"}
NoStyle == [prop \in StyleProps |-> Str("")]

\* An element: its box (for the container in the viewport, for a slide in the
\* container's content), its scroll position and its inline style.
Element(x, y, w, h) ==
    [x |-> x, y |-> y, width |-> w, height |-> h,
     scrollLeft |-> 0, scrollTop |-> 0, style |-> NoStyle]

\* el.getBoundingClientRect(): a slide moves against its container's scroll.
getBoundingClientRect(d, el) ==
    LET left == IF el = ContainerId THEN d[el].x
                ELSE d[ContainerId].x + d[el].x - d[ContainerId].scrollLeft
        top == IF el = ContainerId THEN d[el].y
               ELSE d[ContainerId].y + d[el].y - d[ContainerId].scrollTop
    IN [left |-> left, right |-> left + d[el].width, width |-> d[el].width,
        top |-> top, bottom |-> top + d[el].height, height |-> d[el].height]

getDimension(d, axis, el) ==
    LET rect == getBoundingClientRect(d, el)
    IN [start |-> IF axis = Axis.X THEN rect.left ELSE rect.top,
        end |-> IF axis = Axis.X THEN rect.right ELSE rect.bottom,
        length |-> IF axis = Axis.X THEN rect.width ELSE rect.height]

getCenter(d, axis, el) ==
    LET dim == getDimension(d, axis, el)
    IN (dim.start + dim.end) \div 2

getStart(d, axis, el) == getDimension(d, axis, el).start

getPosition(d, axis, alignment, el) ==
    IF alignment = Alignment.START THEN getStart(d, axis, el)
    ELSE getCenter(d, axis, el)

\* src/core/dom/style setStyle(el, property, value).
setStyle(d, el, property, value) ==
    [d EXCEPT ![el].style[property] = value]

\* src/core/dom/style setImportantStyles(el, styles), for one property.
setImportantStyles(d, el, property, value) ==
    [d EXCEPT ![el].style[property] = value]

updateLengthStyle(d, axis, el, length) ==
    IF axis = Axis.X THEN setStyle(d, el, "width", Px(length))
    ELSE setStyle(d, el, "height", Px(length))

setTransformTranslateStyle(d, axis, el, delta) ==
    LET deltaX == IF axis = Axis.X THEN delta ELSE 0
        deltaY == IF axis = Axis.X THEN 0 ELSE delta
    IN setImportantStyles(
           setStyle(d, el, "transform", Translate(deltaX, deltaY)),
           el, "--content-transform", Translate(deltaX, deltaY))

\* A variant of overlaps that takes the end point in.
overlaps_InclusiveEnd(d, axis, el, position) ==
    LET dim == getDimension(d, axis, el)
    IN dim.start <= position /\ position <= dim.end

overlaps(d, axis, el, position) ==
    LET dim == getDimension(d, axis, el)
    IN dim.start <= position /\ position < dim.end

\* JavaScript's a % b for b > 0: the sign of the result is that of a.
JsRemainder(a, b) == IF a >= 0 THEN a % b ELSE -((-a) % b)

\* src/core/math mod(a, b): the remainder brought into 0..b-1.
mod(a, b) ==
    IF a > 0 /\ b > 0 THEN JsRemainder(a, b)
    ELSE JsRemainder(JsRemainder(a, b) + b, b)

\* children.length of an array held as a function on 0..length-1.
Length(array) == Cardinality(DOMAIN array)

\* A variant of the loop that stops at i < length / 2.
RECURSIVE findOutwards_Strict(_, _, _, _, _, _)
findOutwards_Strict(d, axis, pos, array, startIndex, i) ==
    IF ~(2 * i < Length(array)) THEN Undefined
    ELSE LET nextIndex == mod(startIndex + i, Length(array))
             prevIndex == mod(startIndex - i, Length(array))
         IN IF overlaps(d, axis, array[nextIndex], pos) THEN Num(nextIndex)
            ELSE IF overlaps(d, axis, array[prevIndex], pos) THEN Num(prevIndex)
            ELSE findOutwards_Strict(d, axis, pos, array, startIndex, i + 1)

\* The loop of findOverlappingIndex from step i on; i <= length / 2 is a
\* comparison of reals.
RECURSIVE findOutwards(_, _, _, _, _, _)
findOutwards(d, axis, pos, array, startIndex, i) ==
    IF ~(2 * i <= Length(array)) THEN Undefined
    ELSE LET nextIndex == mod(startIndex + i, Length(array))
             prevIndex == mod(startIndex - i, Length(array))
         IN IF overlaps(d, axis, array[nextIndex], pos) THEN Num(nextIndex)
            ELSE IF overlaps(d, axis, array[prevIndex], pos) THEN Num(prevIndex)
            ELSE findOutwards(d, axis, pos, array, startIndex, i + 1)

findOverlappingIndex(d, axis, alignment, container, array, startIndex) ==
    LET pos == getPosition(d, axis, alignment, container)
    IN IF overlaps(d, axis, array[startIndex], pos) THEN Num(startIndex)
       ELSE findOutwards(d, axis, pos, array, startIndex, 1)

getScrollPosition(d, axis, el) ==
    IF axis = Axis.X THEN d[el].scrollLeft ELSE d[el].scrollTop

\* The extent of an element's content along an axis: for the container, as far
\* as its slides reach; a slide has no content of its own.
ContentLength(d, axis, el) ==
    IF el # ContainerId THEN 0
    ELSE LET reach(e) == IF axis = Axis.X THEN d[e].x + d[e].width
                         ELSE d[e].y + d[e].height
             slides == DOMAIN d \ {ContainerId}
         IN IF slides = {} THEN 0
            ELSE CHOOSE m \in {reach(e) : e \in slides} :
                     \A e \in slides : reach(e) <= m

\* The largest scroll position the element takes along an axis.
MaxScroll(d, axis, el) ==
    Max(0, ContentLength(d, axis, el)
           - (IF axis = Axis.X THEN d[el].width ELSE d[el].height))

\* What an assignment to el.scrollLeft or el.scrollTop stores: the document
\* clamps the value to the element's scroll range.
Clamp(d, axis, el, position) ==
    Max(0, Min(position, MaxScroll(d, axis, el)))

\* A variant of setScrollPosition with the two axes exchanged.
setScrollPosition_AxesSwapped(d, axis, el, position) ==
    IF axis = Axis.X
    THEN [d EXCEPT ![el].scrollTop = Clamp(d, Axis.Y, el, position)]
    ELSE [d EXCEPT ![el].scrollLeft = Clamp(d, Axis.X, el, position)]

setScrollPosition(d, axis, el, position) ==
    IF axis = Axis.X
    THEN [d EXCEPT ![el].scrollLeft = Clamp(d, Axis.X, el, position)]
    ELSE [d EXCEPT ![el].scrollTop = Clamp(d, Axis.Y, el, position)]

updateScrollPosition(d, axis, el, delta) ==
    setScrollPosition(d, axis, el, getScrollPosition(d, axis, el) + delta)

\* offset * length for an offset of offsetHalves / 2.
OffsetTimesLength(offsetHalves, length) == (offsetHalves * length) \div 2

\* A variant of the delta that measures the container from its start edge
\* under either alignment.
scrollDelta_ContainerStart(d, axis, alignment, container, el, offsetHalves) ==
    LET startAligned == alignment = Alignment.START
        length == getDimension(d, axis, el).length
        snapOffset == IF startAligned THEN getStart(d, axis, el)
                      ELSE getCenter(d, axis, el)
        scrollOffset == getStart(d, axis, container)
    IN snapOffset - scrollOffset - OffsetTimesLength(offsetHalves, length)

\* The delta scrollContainerToElement computes.
scrollDelta(d, axis, alignment, container, el, offsetHalves) ==
    LET startAligned == alignment = Alignment.START
        length == getDimension(d, axis, el).length
        snapOffset == IF startAligned THEN getStart(d, axis, el)
                      ELSE getCenter(d, axis, el)
        scrollOffset == IF startAligned THEN getStart(d, axis, container)
                        ELSE getCenter(d, axis, container)
    IN snapOffset - scrollOffset - OffsetTimesLength(offsetHalves, length)

scrollContainerToElement(d, axis, alignment, container, el, offsetHalves) ==
    updateScrollPosition(d, axis, container,
        scrollDelta(d, axis, alignment, container, el, offsetHalves))

(***************************************************************************)
(* The helpers as operations on the document.                              *)
(***************************************************************************)
Ran(name, axis, alignment, el, arg, ret) ==
    [name |-> name, axis |-> axis, alignment |-> alignment, el |-> el,
     arg |-> arg, ret |-> ret]

NoOp == Ran("none", Axis.X, Alignment.START, ContainerId, 0, Undefined)

Slides == DOMAIN dom \ {ContainerId}

\* The inputs the helpers are called with.
OffsetHalves == {-1, 0, 1, 2}
ScrollPositions == {0, 2, 5}
ScrollDeltas == {-2, 1}
StyleLengths == {3, 6}
TranslateDeltas == {0, 5}

FindOverlappingIndex(axis, alignment, startIndex) ==
    /\ startIndex \in DOMAIN children
    /\ op' = Ran("findOverlappingIndex", axis, alignment, ContainerId, startIndex,
                 findOverlappingIndex(dom, axis, alignment, ContainerId,
                                      children, startIndex))
    /\ UNCHANGED <<dom, children, fbVars>>

\* overlaps, asked of a slide at the container's position.
Overlaps(axis, alignment, el) ==
    /\ el \in Slides
    /\ op' = Ran("overlaps", axis, alignment, el,
                 getPosition(dom, axis, alignment, ContainerId),
                 Bool(overlaps(dom, axis, el,
                               getPosition(dom, axis, alignment, ContainerId))))
    /\ UNCHANGED <<dom, children, fbVars>>

ScrollContainerToElement(axis, alignment, el, offsetHalves) ==
    /\ el \in Slides
    /\ dom' = scrollContainerToElement(dom, axis, alignment, ContainerId, el,
                                       offsetHalves)
    /\ op' = Ran("scrollContainerToElement", axis, alignment, el, offsetHalves,
                 Undefined)
    /\ UNCHANGED <<children, fbVars>>

SetScrollPosition(axis, position) ==
    /\ dom' = setScrollPosition(dom, axis, ContainerId, position)
    /\ op' = Ran("setScrollPosition", axis, Alignment.START, ContainerId,
                 position, Undefined)
    /\ UNCHANGED <<children, fbVars>>

UpdateScrollPosition(axis, delta) ==
    /\ dom' = updateScrollPosition(dom, axis, ContainerId, delta)
    /\ op' = Ran("updateScrollPosition", axis, Alignment.START, ContainerId,
                 delta, Undefined)
    /\ UNCHANGED <<children, fbVars>>

UpdateLengthStyle(axis, el, length) ==
    /\ el \in DOMAIN dom
    /\ dom' = updateLengthStyle(dom, axis, el, length)
    /\ op' = Ran("updateLengthStyle", axis, Alignment.START, el, length,
                 Undefined)
    /\ UNCHANGED <<children, fbVars>>

SetTransformTranslateStyle(axis, el, delta) ==
    /\ el \in DOMAIN dom
    /\ dom' = setTransformTranslateStyle(dom, axis, el, delta)
    /\ op' = Ran("setTransformTranslateStyle", axis, Alignment.START, el, delta,
                 Undefined)
    /\ UNCHANGED <<children, fbVars>>

(***************************************************************************)
(* Layouts: a carousel along `direction` whose n square slides, of the     *)
(* given side lengths, lie back to back in the container's content.  The   *)
(* container is 4 long and 2 across, at (1, 3) in the viewport.            *)
(***************************************************************************)
SlideLengths == {0, 2, 4}

RECURSIVE SumBefore(_, _)
SumBefore(sizes, k) == IF k <= 1 THEN 0 ELSE sizes[k - 1] + SumBefore(sizes, k - 1)

Layout(direction, n, sizes) ==
    [e \in 0..n |->
        IF e = ContainerId
        THEN IF direction = Axis.X THEN Element(1, 3, 4, 2)
             ELSE Element(1, 3, 2, 4)
        ELSE IF direction = Axis.X
             THEN Element(SumBefore(sizes, e), 0, sizes[e], sizes[e])
             ELSE Element(0, SumBefore(sizes, e), sizes[e], sizes[e])]

FacebookIdle ==
    /\ embedAs = Null
    /\ testMode = FALSE
    /\ iframe_ = NULL
    /\ unlistenMessage_ = NULL
    /\ toggleLoadingCounter_ = 0
    /\ created = 0
    /\ childIframes = {}
    /\ messageListeners = {}
    /\ sizeListeners = {}
    /\ loading = FALSE
    /\ height = Undefined
    /\ laidOut = FALSE
    /\ last = Op("constructor", FALSE, NoInput)
    /\ calls = <<>>

CarouselIdle ==
    /\ dom = [e \in {ContainerId} |-> Element(0, 0, 0, 0)]
    /\ children = <<>>
    /\ op = NoOp

Init ==
    /\ embedAs \in EmbedAsValues
    /\ testMode \in BOOLEAN
    /\ iframe_ = NULL
    /\ unlistenMessage_ = NULL
    /\ toggleLoadingCounter_ = 0
    /\ created = 0
    /\ childIframes = {}
    /\ messageListeners = {}
    /\ sizeListeners = {}
    /\ loading = FALSE
    /\ height = Undefined
    /\ laidOut = FALSE
    /\ last = Op("constructor", FALSE, NoInput)
    /\ calls = <<>>
    /\ CarouselIdle

Next ==
    \/ layoutCallback
    \/ unlayoutCallback
    \/ \E event \in Events : ReceiveMessage(event)

Spec == Init /\ [][Next]_vars

(***************************************************************************)
(* Properties of AmpFacebook, checked under Spec.                          *)
(***************************************************************************)
ReadyObject == Obj([action |-> Str("ready")])

Toggled(b) == \E i \in 1..Len(calls) : calls[i] = Call("toggleLoading", Bool(b))
HeightCalls == {i \in 1..Len(calls) : calls[i].fn = "forceChangeHeight"}

\* The message that ran last came from the window of the element's iframe.
FromOwnIframe == iframe_ # NULL /\ last.source = contentWindow(iframe_)

\* C1: while the element is laid out, a JSON-encoded {action: 'ready'}
\* message from the iframe's window turns the loading indicator off.
C1_JsonReadyTurnsLoadingOff ==
    (last.op = "message" /\ laidOut /\ FromOwnIframe
        /\ last.data = Json(ReadyObject))
    => (Toggled(FALSE) /\ loading = FALSE)

\* The same message posted as an object does turn the indicator off.
ObjectReadyTurnsLoadingOff ==
    (last.op = "message" /\ laidOut /\ FromOwnIframe /\ last.data = ReadyObject)
    => (Toggled(FALSE) /\ loading = FALSE)

\* C2: layoutCallback throws a user error and changes nothing when
\* data-embed-as is present, non-empty and not 'post', 'video' or 'comment';
\* otherwise it goes on and creates and appends the iframe.
C2_LayoutRejectsUnsupportedEmbedAs ==
    [][last'.op = "layoutCallback" =>
         IF embedAs \notin {Null, Str(""), Str("post"), Str("video"), Str("comment")}
         THEN /\ last'.threw
              /\ calls' = <<>>
              /\ UNCHANGED <<iframe_, unlistenMessage_, toggleLoadingCounter_,
                             created, childIframes, messageListeners,
                             sizeListeners, loading, height, laidOut>>
         ELSE /\ ~last'.threw
              /\ created' = created + 1
              /\ iframe_' = created'
              /\ iframe_' \in childIframes'
              /\ iframe_' \in messageListeners'
              /\ loading']_vars

C2_Witness ==
    /\ last.op = "layoutCallback"
    /\ last.threw
    /\ embedAs = Str("photo")
    /\ iframe_ = NULL

\* The object an 'embed-size' message carries, whatever its encoding.
Carried(data) ==
    IF IsKind(data, "json") THEN data.json
    ELSE IF IsKind(data, "amp") THEN data.amp
    ELSE data

IsEmbedSize(data) ==
    /\ IsKind(Carried(data), "obj")
    /\ "type" \in DOMAIN Carried(data).obj
    /\ Carried(data).obj.type = Str("embed-size")

\* C3: once laid out, every 'embed-size' message from the element's iframe
\* calls forceChangeHeight, once, with the height the message carries; no
\* other message and no other operation asks for a height change.
C3_EmbedSizeResizes ==
    IF last.op = "message" /\ FromOwnIframe /\ IsEmbedSize(last.data)
    THEN /\ Cardinality(HeightCalls) = 1
         /\ \A i \in HeightCalls : calls[i].arg = Carried(last.data).obj.height
         /\ height = Carried(last.data).obj.height
    ELSE HeightCalls = {}

C3_Witness ==
    /\ last.op = "message"
    /\ last.data = AmpMsg(Obj([type |-> Str("embed-size"), height |-> Num(250)]))
    /\ height = Num(250)
    /\ HeightCalls # {}

\* C7: between a layoutCallback and the next unlayoutCallback iframe_ is set,
\* the iframe is the element's child and exactly one message listener is
\* registered; after unlayoutCallback the iframe is removed, iframe_ is null,
\* no listener is left, and no message toggles the loading indicator.
C7_LayoutUnlayoutAlternate ==
    /\ laidOut => /\ iframe_ # NULL
                  /\ childIframes = {iframe_}
                  /\ Cardinality(messageListeners) = 1
    /\ ~laidOut => /\ iframe_ = NULL
                   /\ childIframes = {}
                   /\ messageListeners = {}
    /\ (last.op = "message" /\ ~laidOut) => ~Toggled(FALSE) /\ ~Toggled(TRUE)
    /\ last.op = "unlayoutCallback" => ~laidOut

C7_Witness ==
    /\ last.op = "message"
    /\ last.data = ReadyObject
    /\ last.source = 1
    /\ created = 1
    /\ ~laidOut
    /\ loading

\* The data C8 speaks of: everything but an object whose action is 'ready'
\* and the JSON text of such an object.
HasReadyAction(v) ==
    /\ IsKind(v, "obj")
    /\ "action" \in DOMAIN v.obj
    /\ v.obj.action = Str("ready")

IgnoredData(data) ==
    ~HasReadyAction(data) /\ ~(IsKind(data, "json") /\ HasReadyAction(data.json))

\* C8: a message with no data, with data that is neither an object nor JSON
\* text, or with an action other than 'ready' raises no error and leaves the
\* loading indicator, toggleLoadingCounter_, iframe_ and the listener alone.
C8_OtherMessagesIgnored ==
    [][(last'.op = "message" /\ IgnoredData(last'.data)) =>
         /\ ~last'.threw
         /\ \A i \in 1..Len(calls') : calls'[i].fn # "toggleLoading"
         /\ UNCHANGED <<loading, toggleLoadingCounter_, iframe_,
                        unlistenMessage_, messageListeners, childIframes>>]_vars

C8_Witness ==
    /\ last.op = "message"
    /\ last.data = Str("hello")
    /\ FromOwnIframe
    /\ loading
    /\ ~last.threw

\* C9: a message whose source is not the window of the element's own iframe
\* never turns the loading indicator off, whatever it carries.
C9_ForeignSourceNeverEndsLoading ==
    (last.op = "message" /\ ~FromOwnIframe) => ~Toggled(FALSE)

C9_Witness ==
    /\ last.op = "message"
    /\ last.data = ReadyObject
    /\ laidOut
    /\ last.source # contentWindow(iframe_)
    /\ messageListeners # {}
    /\ loading

\* CarouselSpec: the pure geometry helpers over every layout of up to
\* MaxChildren slides, at several scroll positions.
CarouselInit ==
    /\ FacebookIdle
    /\ \E direction \in Axes, n \in 1..MaxChildren, scrolled \in ScrollPositions :
         \E sizes \in [1..n -> SlideLengths] :
            /\ dom = setScrollPosition(Layout(direction, n, sizes), direction,
                                       ContainerId, scrolled)
            /\ children = [i \in 0..(n - 1) |-> i + 1]
    /\ op = NoOp

CarouselNext ==
    \/ \E axis \in Axes, alignment \in Alignments, startIndex \in 0..(MaxChildren - 1) :
         FindOverlappingIndex(axis, alignment, startIndex)
    \/ \E axis \in Axes, alignment \in Alignments, el \in 1..MaxChildren :
         Overlaps(axis, alignment, el)

CarouselSpec == CarouselInit /\ [][CarouselNext]_vars

\* ScrollSpec: the scrolling helpers over the layouts of three slides.
ScrollInit ==
    /\ FacebookIdle
    /\ \E direction \in Axes, sizes \in [1..3 -> SlideLengths \ {0}] :
         /\ dom = Layout(direction, 3, sizes)
         /\ children = [i \in 0..2 |-> i + 1]
    /\ op = NoOp

ScrollNext ==
    \/ \E axis \in Axes, alignment \in Alignments, el \in 1..3,
          offsetHalves \in OffsetHalves :
         ScrollContainerToElement(axis, alignment, el, offsetHalves)
    \/ \E axis \in Axes, position \in ScrollPositions :
         SetScrollPosition(axis, position)
    \/ \E axis \in Axes, delta \in ScrollDeltas :
         UpdateScrollPosition(axis, delta)

ScrollSpec == ScrollInit /\ [][ScrollNext]_vars

\* StyleSpec: every mutating helper, on one layout of two slides; the style
\* helpers are applied to the second slide.
StyleInit ==
    /\ FacebookIdle
    /\ \E direction \in Axes :
         /\ dom = Layout(direction, 2, <<4, 4>>)
         /\ children = [i \in 0..1 |-> i + 1]
    /\ op = NoOp

StyleNext ==
    \/ \E axis \in Axes, alignment \in Alignments, el \in 1..2 :
         ScrollContainerToElement(axis, alignment, el, 0)
    \/ \E axis \in Axes, position \in ScrollPositions :
         SetScrollPosition(axis, position)
    \/ \E axis \in Axes, delta \in ScrollDeltas :
         UpdateScrollPosition(axis, delta)
    \/ \E axis \in Axes, length \in StyleLengths :
         UpdateLengthStyle(axis, 2, length)
    \/ \E axis \in Axes, delta \in TranslateDeltas :
         SetTransformTranslateStyle(axis, 2, delta)

StyleSpec == StyleInit /\ [][StyleNext]_vars

(***************************************************************************)
(* Properties of the carousel helpers.                                     *)
(***************************************************************************)
\* The edges of an element along an axis, read off its bounding rectangle.
EdgeStart(d, axis, el) ==
    IF axis = Axis.X THEN getBoundingClientRect(d, el).left
    ELSE getBoundingClientRect(d, el).top
EdgeEnd(d, axis, el) ==
    IF axis = Axis.X THEN getBoundingClientRect(d, el).right
    ELSE getBoundingClientRect(d, el).bottom

\* The position of an element under an alignment: its start edge, or the
\* middle of its two edges.
Pos(d, axis, alignment, el) ==
    IF alignment = Alignment.START THEN EdgeStart(d, axis, el)
    ELSE (EdgeStart(d, axis, el) + EdgeEnd(d, axis, el)) \div 2

\* The divisions of the model are exact: every length is even.
LengthsEven ==
    \A el \in DOMAIN dom : dom[el].width % 2 = 0 /\ dom[el].height % 2 = 0

\* The indices of the children that overlap the container's position.
Overlapping(axis, alignment) ==
    {i \in DOMAIN children :
        overlaps(dom, axis, children[i],
                 getPosition(dom, axis, alignment, ContainerId))}

\* C4 (CarouselSpec): for a non-empty children array and a start index
\* within it, findOverlappingIndex returns the index of a child that overlaps
\* the container's position, and undefined only when no child overlaps it.
C4_FindsOverlappingIndex ==
    op.name = "findOverlappingIndex" =>
        IF op.ret = Undefined THEN Overlapping(op.axis, op.alignment) = {}
        ELSE op.ret.num \in Overlapping(op.axis, op.alignment)

\* Found two steps away from the start index, on the far side of four slides.
C4_Witness ==
    /\ op.name = "findOverlappingIndex"
    /\ Length(children) = 4
    /\ op.ret = Num((op.arg + 2) % 4)
    /\ Overlapping(op.axis, op.alignment) = {(op.arg + 2) % 4}

\* The slides lie back to back along the axis, in the order of the array.
BackToBack(axis) ==
    \A i \in DOMAIN children :
        (i + 1) \in DOMAIN children =>
            EdgeEnd(dom, axis, children[i]) = EdgeStart(dom, axis, children[i + 1])

\* The positions tried: every point from before the first edge to after the
\* last one.
Probes(axis) ==
    LET edges == {EdgeStart(dom, axis, e) : e \in DOMAIN dom}
                 \cup {EdgeEnd(dom, axis, e) : e \in DOMAIN dom}
        lo == CHOOSE m \in edges : \A e \in edges : m <= e
        hi == CHOOSE m \in edges : \A e \in edges : e <= m
    IN (lo - 1)..(hi + 1)

\* C6 (CarouselSpec): overlaps is true exactly when start <= position < end;
\* so when the slides lie back to back a position overlaps at most one of
\* them, and a position on a shared edge does not overlap the slide that ends
\* there: whatever it overlaps starts there.
C6_OverlapsIsHalfOpen ==
    /\ op.name = "overlaps" =>
           op.ret = Bool(/\ EdgeStart(dom, op.axis, op.el) <= op.arg
                         /\ op.arg < EdgeEnd(dom, op.axis, op.el))
    /\ \A axis \in Axes :
         BackToBack(axis) =>
           \A p \in Probes(axis) :
             LET over == {i \in DOMAIN children : overlaps(dom, axis, children[i], p)}
             IN /\ Cardinality(over) <= 1
                /\ \A i \in DOMAIN children :
                     ((i + 1) \in DOMAIN children
                         /\ p = EdgeEnd(dom, axis, children[i]))
                     => \A j \in over : EdgeStart(dom, axis, children[j]) = p

\* The container's position is the edge two slides share: the slide asked
\* about ends there and does not overlap it, the next one does.
C6_Witness ==
    /\ op.name = "overlaps"
    /\ op.ret = Bool(FALSE)
    /\ BackToBack(op.axis)
    /\ dom[op.el].width > 0
    /\ op.arg = EdgeEnd(dom, op.axis, op.el)
    /\ (op.el + 1) \in DOMAIN dom
    /\ overlaps(dom, op.axis, op.el + 1, op.arg)

\* C5 (ScrollSpec): scrollContainerToElement moves the container's scroll
\* position along the axis by delta = pos(el) - pos(container) - offset *
\* length(el); when the document does not clamp that position, afterwards
\* pos(el) - pos(container) = offset * length(el), and with offset 0 the
\* element is aligned with the container.
C5_ScrollAlignsElement ==
    [][op'.name = "scrollContainerToElement" =>
         LET axis == op'.axis
             alignment == op'.alignment
             el == op'.el
             delta == Pos(dom, axis, alignment, el)
                      - Pos(dom, axis, alignment, ContainerId)
                      - OffsetTimesLength(op'.arg, EdgeEnd(dom, axis, el)
                                                   - EdgeStart(dom, axis, el))
             target == getScrollPosition(dom, axis, ContainerId) + delta
         IN /\ getScrollPosition(dom', axis, ContainerId)
                   = Max(0, Min(target, MaxScroll(dom, axis, ContainerId)))
            /\ (0 <= target /\ target <= MaxScroll(dom, axis, ContainerId)) =>
                 /\ getScrollPosition(dom', axis, ContainerId)
                        = getScrollPosition(dom, axis, ContainerId) + delta
                 /\ Pos(dom', axis, alignment, el)
                        - Pos(dom', axis, alignment, ContainerId)
                    = OffsetTimesLength(op'.arg, EdgeEnd(dom', axis, el)
                                                 - EdgeStart(dom', axis, el))
                 /\ op'.arg = 0 => Pos(dom', axis, alignment, el)
                                   = Pos(dom', axis, alignment, ContainerId)]_vars

\* A centred slide, half its length off, after an unclamped scroll.
C5_Witness ==
    /\ op.name = "scrollContainerToElement"
    /\ op.alignment = Alignment.CENTER
    /\ op.arg = 1
    /\ getScrollPosition(dom, op.axis, ContainerId) > 0
    /\ getScrollPosition(dom, op.axis, ContainerId)
           < MaxScroll(dom, op.axis, ContainerId)
    /\ Pos(dom, op.axis, op.alignment, op.el)
           - Pos(dom, op.axis, op.alignment, ContainerId)
       = OffsetTimesLength(1, dom[op.el].width)
    /\ dom[op.el].width = 4

\* The document with one field of one element taken out of the comparison.
SameBut(d, e, el, field) == [d EXCEPT ![el][field] = e[el][field]] = e
SameStyleBut(d, e, el, props) ==
    /\ [d EXCEPT ![el].style = e[el].style] = e
    /\ \A prop \in StyleProps \ props : d[el].style[prop] = e[el].style[prop]

\* C10 (StyleSpec): on Axis.X the scrolling helpers change scrollLeft alone
\* and on Axis.Y scrollTop alone; updateLengthStyle sets width alone on
\* Axis.X and height alone on Axis.Y; setTransformTranslateStyle writes
\* translate(delta, 0) on Axis.X and translate(0, delta) on Axis.Y to both
\* 'transform' and '--content-transform', and nothing else.
C10_AxesAreIndependent ==
    [][/\ op'.name \in {"setScrollPosition", "updateScrollPosition",
                        "scrollContainerToElement"} =>
            SameBut(dom, dom', ContainerId,
                    IF op'.axis = Axis.X THEN "scrollLeft" ELSE "scrollTop")
       /\ op'.name = "setScrollPosition" =>
            getScrollPosition(dom', op'.axis, ContainerId)
                = Max(0, Min(op'.arg, MaxScroll(dom, op'.axis, ContainerId)))
       /\ op'.name = "updateScrollPosition" =>
            getScrollPosition(dom', op'.axis, ContainerId)
                = Max(0, Min(getScrollPosition(dom, op'.axis, ContainerId) + op'.arg,
                             MaxScroll(dom, op'.axis, ContainerId)))
       /\ op'.name = "updateLengthStyle" =>
            LET prop == IF op'.axis = Axis.X THEN "width" ELSE "height"
            IN /\ SameStyleBut(dom, dom', op'.el, {prop})
               /\ dom'[op'.el].style[prop] = Px(op'.arg)
       /\ op'.name = "setTransformTranslateStyle" =>
            LET value == IF op'.axis = Axis.X THEN Translate(op'.arg, 0)
                         ELSE Translate(0, op'.arg)
            IN /\ SameStyleBut(dom, dom', op'.el,
                               {"transform", "--content-transform"})
               /\ dom'[op'.el].style["transform"] = value
               /\ dom'[op'.el].style["--content-transform"] = value]_vars

C10_Witness ==
    /\ op.name = "setTransformTranslateStyle"
    /\ op.axis = Axis.Y
    /\ dom[2].style["transform"] = Translate(0, 5)
    /\ dom[2].style["--content-transform"] = Translate(0, 5)
    /\ dom[2].style["width"] = Px(3)
    /\ dom[2].style["height"] = Px(6)
    /\ dom[ContainerId].scrollLeft = 3
    /\ dom[ContainerId].scrollTop = 1

=============================================================================
